---------------------------- MODULE Spec2Model ----------------------------
(***************************************************************************)
(* Approximate-equality comparisons of the approxim crate:                 *)
(*   AbsDiffEq  (src/src/abs_diff_eq.rs)                                   *)
(*   RelativeEq (src/src/relative_eq.rs)                                   *)
(*   UlpsEq     (src/src/ulps_eq.rs)                                       *)
(*                                                                         *)
(* Integers are two's-complement (signed) or modular (unsigned) numbers of *)
(* IntBits bits.  Floating-point numbers are IEEE-754 binary numbers of    *)
(* FloatBits bits (one sign bit, ExpBits exponent bits, ManBits fraction   *)
(* bits) with subnormals, signed zeros, infinities, NaNs and               *)
(* round-to-nearest-even arithmetic; a float is represented by its bit     *)
(* pattern, exactly what to_bits() returns.                                *)
(***************************************************************************)
EXTENDS Integers, Sequences, FiniteSets, TLC

VARIABLES
    pc,               \* "idle" | "done" | "panicked"
    op,               \* the comparison that was called
    self,             \* left operand
    other,            \* right operand
    epsilon,          \* absolute tolerance
    max_relative,     \* relative threshold (relative_eq only)
    max_ulps,         \* ULP count (ulps_eq only)
    overflow_checks,  \* integer overflow checks of the build (debug: on)
    overflowed,       \* an integer operation left the type's range
    steps,            \* the steps the call executed, in order
    result,           \* the returned boolean (None while there is none)
    strategy,         \* the trait a derived comparison was called through
    params,           \* the parameter object under construction, if any
    after             \* the two operands as the call left them

vars == <<pc, op, self, other, epsilon, max_relative, max_ulps,
          overflow_checks, overflowed, steps, result, strategy, params, after>>

None == "none"

---------------------------------------------------------------------------
(* Bounds *)

IntBits == 4

FloatBits == 4

MaxUlps == 5

\* longest sequence and largest map compared
MaxLen == 2

\* number of distinct map keys
MaxKeys == 3

\* largest tuple compared
MaxArity == 2
MaxChain == 2

---------------------------------------------------------------------------
(* Fixed-width integers *)

RECURSIVE Pow2(_)
Pow2(n) == IF n = 0 THEN 1 ELSE 2 * Pow2(n - 1)

IntModulus == Pow2(IntBits)

\* $T::MIN and $T::MAX of a signed type, $T::MAX of an unsigned one
SignedMin == 0 - Pow2(IntBits - 1)
SignedMax == Pow2(IntBits - 1) - 1
UnsignedMax == IntModulus - 1

SignedInts == SignedMin..SignedMax
UnsignedInts == 0..UnsignedMax

\* two's-complement wrap-around of a mathematical integer
WrapSigned(x) == ((x - SignedMin) % IntModulus) + SignedMin
WrapUnsigned(x) == x % IntModulus

Abs(x) == IF x < 0 THEN 0 - x ELSE x

\* the outcome of one call: a boolean, or a panic; steps are the steps of
\* the function body that were executed, in order
Returned(b, ovf, st) ==
    [panicked |-> FALSE, overflowed |-> ovf, result |-> b, steps |-> st]
Panicked(st) ==
    [panicked |-> TRUE, overflowed |-> TRUE, result |-> None, steps |-> st]

\* x - y in an unsigned type: outside 0..MAX the build either panics
\* (overflow checks on) or wraps (overflow checks off)
unsigned_sub(x, y) ==
    [overflowed |-> x - y < 0, value |-> WrapUnsigned(x - y)]

\* x - y in a signed type
signed_sub(x, y) ==
    [overflowed |-> x - y \notin SignedInts, value |-> WrapSigned(x - y)]

\* $T::abs(x) of a signed type: abs(MIN) is not representable
signed_abs(x) ==
    [overflowed |-> x = SignedMin, value |-> WrapSigned(Abs(x))]

\* mutant: the branches of the comparison exchanged
unsigned_abs_diff_eq_swapped(s, o, e, checks) ==
    LET d == IF s < o THEN unsigned_sub(s, o) ELSE unsigned_sub(o, s)
    IN  IF d.overflowed /\ checks
        THEN Panicked(<<"sub">>)
        ELSE Returned(d.value <= e, d.overflowed, <<"sub", "le">>)

\* mutant: the tolerance is ignored and only equal values compare equal
unsigned_abs_diff_eq_exact(s, o, e, checks) ==
    LET d == IF s > o THEN unsigned_sub(s, o) ELSE unsigned_sub(o, s)
    IN  IF d.overflowed /\ checks
        THEN Panicked(<<"sub">>)
        ELSE Returned(d.value <= 0, d.overflowed, <<"sub", "le">>)

\* impl_unsigned_abs_diff_eq!: (if self > other { self - other } else { other - self }) <= epsilon
unsigned_abs_diff_eq(s, o, e, checks) ==
    LET d == IF s > o THEN unsigned_sub(s, o) ELSE unsigned_sub(o, s)
    IN  IF d.overflowed /\ checks
        THEN Panicked(<<"sub">>)
        ELSE Returned(d.value <= e, d.overflowed, <<"sub", "le">>)

\* mutant: a strict comparison with the tolerance
signed_abs_diff_eq_strict(s, o, e, checks) ==
    LET d == signed_sub(s, o)
        a == signed_abs(d.value)
    IN  IF d.overflowed /\ checks THEN Panicked(<<"sub">>)
        ELSE IF a.overflowed /\ checks THEN Panicked(<<"sub", "abs">>)
        ELSE Returned(a.value < e, d.overflowed \/ a.overflowed,
                      <<"sub", "abs", "le">>)

\* mutant: equal when the difference is at least the tolerance
signed_abs_diff_eq_at_least(s, o, e, checks) ==
    LET d == signed_sub(s, o)
        a == signed_abs(d.value)
    IN  IF d.overflowed /\ checks THEN Panicked(<<"sub">>)
        ELSE IF a.overflowed /\ checks THEN Panicked(<<"sub", "abs">>)
        ELSE Returned(a.value >= e, d.overflowed \/ a.overflowed,
                      <<"sub", "abs", "le">>)

\* impl_signed_abs_diff_eq! on i8..isize: $T::abs(self - other) <= epsilon
signed_abs_diff_eq(s, o, e, checks) ==
    LET d == signed_sub(s, o)
        a == signed_abs(d.value)
    IN  IF d.overflowed /\ checks THEN Panicked(<<"sub">>)
        ELSE IF a.overflowed /\ checks THEN Panicked(<<"sub", "abs">>)
        ELSE Returned(a.value <= e, d.overflowed \/ a.overflowed,
                      <<"sub", "abs", "le">>)

---------------------------------------------------------------------------
(* Floating-point numbers: bit patterns of FloatBits bits *)

ExpBits == FloatBits \div 2
ManBits == FloatBits - 1 - ExpBits

ManSize == Pow2(ManBits)
ExpMax == Pow2(ExpBits) - 1          \* the all-ones exponent: infinities, NaNs
Bias == Pow2(ExpBits - 1) - 1
SignMask == Pow2(ExpBits + ManBits)  \* the sign bit

Floats == 0..(2 * SignMask - 1)

sign_bit(p) == p \div SignMask
magnitude(p) == p % SignMask
exponent(p) == magnitude(p) \div ManSize
fraction(p) == p % ManSize

InfMag == ExpMax * ManSize
INFINITY == InfMag
NEG_INFINITY == SignMask + InfMag
NAN == InfMag + (ManSize \div 2)     \* the canonical quiet NaN
ZERO == 0
NEG_ZERO == SignMask
ONE == Bias * ManSize
NEG_ONE == SignMask + ONE
MAX == InfMag - 1
MIN_POSITIVE == ManSize              \* smallest positive normal value

is_nan(p) == exponent(p) = ExpMax /\ fraction(p) # 0
is_infinite(p) == exponent(p) = ExpMax /\ fraction(p) = 0
is_finite(p) == exponent(p) # ExpMax

\* The value of a magnitude pattern m <= InfMag, in units of the smallest
\* subnormal (2^(1 - Bias - ManBits)).  InfMag stands for the first value
\* beyond the finite range, which is what rounding overflows to.
MagValue(m) ==
    IF m \div ManSize = 0
    THEN m
    ELSE (ManSize + (m % ManSize)) * Pow2((m \div ManSize) - 1)

MagValueT == [m \in 0..InfMag |-> MagValue(m)]

\* the signed value of a non-NaN pattern, in the same units
Value(p) ==
    IF sign_bit(p) = 1 THEN 0 - MagValueT[magnitude(p)] ELSE MagValueT[magnitude(p)]

\* one unit is 1 / UnitDen
UnitDen == Pow2(Bias + ManBits - 1)

\* round-to-nearest, ties-to-even, of the non-negative rational num / den
\* (in units), to a magnitude pattern; values at or beyond the midpoint
\* between MAX and the next power of two overflow to infinity
RoundMag(num, den) ==
    LET below == {m \in 0..InfMag : MagValueT[m] * den <= num}
        lo == CHOOSE m \in below : \A k \in below : k <= m
    IN  IF lo = InfMag THEN InfMag
        ELSE LET twice == 2 * num
                 mid == (MagValueT[lo] + MagValueT[lo + 1]) * den
             IN  IF twice < mid THEN lo
                 ELSE IF twice > mid THEN lo + 1
                 ELSE IF lo % 2 = 0 THEN lo ELSE lo + 1

FromSignMag(s, m) == s * SignMask + m

\* a - b (IEEE-754 subtraction).  The payload of a produced NaN is never
\* observed by the comparisons, so the canonical NaN stands for all of them.
FSubCompute(a, b) ==
    IF is_nan(a) \/ is_nan(b) THEN NAN
    ELSE IF is_infinite(a) /\ is_infinite(b)
         THEN IF sign_bit(a) = sign_bit(b) THEN NAN ELSE a
    ELSE IF is_infinite(a) THEN a
    ELSE IF is_infinite(b) THEN FromSignMag(1 - sign_bit(b), InfMag)
    ELSE LET d == Value(a) - Value(b)
         IN  IF d = 0
             THEN IF sign_bit(a) # sign_bit(b) THEN FromSignMag(sign_bit(a), 0) ELSE ZERO
             ELSE FromSignMag(IF d < 0 THEN 1 ELSE 0, RoundMag(Abs(d), 1))

\* a * b (IEEE-754 multiplication)
FMulCompute(a, b) ==
    LET s == IF sign_bit(a) = sign_bit(b) THEN 0 ELSE 1
    IN  IF is_nan(a) \/ is_nan(b) THEN NAN
        ELSE IF is_infinite(a) \/ is_infinite(b)
             THEN IF magnitude(a) = 0 \/ magnitude(b) = 0 THEN NAN
                  ELSE FromSignMag(s, InfMag)
        ELSE FromSignMag(s, RoundMag(MagValueT[magnitude(a)] * MagValueT[magnitude(b)], UnitDen))

FSubT == [a \in Floats |-> [b \in Floats |-> FSubCompute(a, b)]]
FMulT == [a \in Floats |-> [b \in Floats |-> FMulCompute(a, b)]]

FSub(a, b) == FSubT[a][b]
FMul(a, b) == FMulT[a][b]

\* $T::abs: clears the sign bit
FAbs(a) == magnitude(a)

\* the native comparisons: every comparison with a NaN is false
FEq(a, b) == ~is_nan(a) /\ ~is_nan(b) /\ Value(a) = Value(b)
FLe(a, b) == ~is_nan(a) /\ ~is_nan(b) /\ Value(a) <= Value(b)
FGt(a, b) == ~is_nan(a) /\ ~is_nan(b) /\ Value(a) > Value(b)

FLt(a, b) == ~is_nan(a) /\ ~is_nan(b) /\ Value(a) < Value(b)

\* -a: flips the sign bit
FNeg(a) == FromSignMag(1 - sign_bit(a), magnitude(a))

\* a + b (IEEE-754 addition), the same operation as a - (-b)
FAdd(a, b) == FSub(a, FNeg(b))

\* $T::EPSILON: the difference between 1.0 and the next larger
\* representable number
EPSILON == FSub(ONE + 1, ONE)

\* $T::signum: 1.0 for +0.0 and above, -1.0 for -0.0 and below, NaN for NaN
signum(a) == IF is_nan(a) THEN NAN ELSE IF sign_bit(a) = 1 THEN NEG_ONE ELSE ONE

\* $T::to_bits
to_bits(a) == a

---------------------------------------------------------------------------
(* The three comparisons on a floating primitive *)

\* default_epsilon() of the integer types: impl_*_abs_diff_eq!($T, 0)
int_default_epsilon == 0

\* default_epsilon() of f32, f64: impl_signed_abs_diff_eq!($T, core::$T::EPSILON)
float_default_epsilon == EPSILON

\* mutant: a strict comparison with the tolerance
float_abs_diff_eq_strict(s, o, e) == FLt(FAbs(FSub(s, o)), e)

\* mutant: "not greater than" in place of "less than or equal"
float_abs_diff_eq_not_gt(s, o, e) == ~FGt(FAbs(FSub(s, o)), e)

\* mutant: the difference is compared without taking its absolute value
float_abs_diff_eq_no_abs(s, o, e) == FLe(FSub(s, o), e)

\* impl_signed_abs_diff_eq! on f32, f64: $T::abs(self - other) <= epsilon
float_abs_diff_eq(s, o, e) == FLe(FAbs(FSub(s, o)), e)

\* mutant: no early return for the remaining infinities
relative_eq_no_infinite_check(s, o, e, m) ==
    IF FEq(s, o) THEN Returned(TRUE, FALSE, <<"eq">>)
    ELSE LET abs_diff == FAbs(FSub(s, o))
         IN  IF FLe(abs_diff, e)
             THEN Returned(TRUE, FALSE, <<"eq", "epsilon">>)
             ELSE LET abs_self == FAbs(s)
                      abs_other == FAbs(o)
                      largest == IF FGt(abs_other, abs_self) THEN abs_other ELSE abs_self
                  IN  Returned(FLe(abs_diff, FMul(largest, m)), FALSE,
                               <<"eq", "epsilon", "max_relative">>)

\* the body of relative_eq with the given choice of the magnitude
relative_eq_scaled_by(s, o, e, m, scale) ==
    IF FEq(s, o) THEN Returned(TRUE, FALSE, <<"eq">>)
    ELSE IF is_infinite(s) \/ is_infinite(o)
         THEN Returned(FALSE, FALSE, <<"eq", "is_infinite">>)
    ELSE LET abs_diff == FAbs(FSub(s, o))
         IN  IF FLe(abs_diff, e)
             THEN Returned(TRUE, FALSE, <<"eq", "is_infinite", "epsilon">>)
             ELSE Returned(FLe(abs_diff, FMul(scale, m)), FALSE,
                           <<"eq", "is_infinite", "epsilon", "max_relative">>)

\* mutant: the difference is scaled by the smaller magnitude
relative_eq_smallest(s, o, e, m) ==
    relative_eq_scaled_by(s, o, e, m,
                          IF FGt(FAbs(o), FAbs(s)) THEN FAbs(s) ELSE FAbs(o))

\* mutant: the difference is scaled by the magnitude of self
relative_eq_abs_self(s, o, e, m) ==
    relative_eq_scaled_by(s, o, e, m, FAbs(s))

\* impl_relative_eq!
relative_eq(s, o, e, m) ==
    IF FEq(s, o) THEN Returned(TRUE, FALSE, <<"eq">>)
    ELSE IF is_infinite(s) \/ is_infinite(o)
         THEN Returned(FALSE, FALSE, <<"eq", "is_infinite">>)
    ELSE LET abs_diff == FAbs(FSub(s, o))
         IN  IF FLe(abs_diff, e)
             THEN Returned(TRUE, FALSE, <<"eq", "is_infinite", "epsilon">>)
             ELSE LET abs_self == FAbs(s)
                      abs_other == FAbs(o)
                      largest == IF FGt(abs_other, abs_self) THEN abs_other ELSE abs_self
                  IN  Returned(FLe(abs_diff, FMul(largest, m)), FALSE,
                               <<"eq", "is_infinite", "epsilon", "max_relative">>)

\* x - y in $U, the unsigned type as wide as the float
bits_sub(x, y) ==
    [overflowed |-> x - y < 0, value |-> (x - y) % (2 * SignMask)]

\* mutant: no sign check
ulps_eq_no_sign_check(s, o, e, m, checks) ==
    IF float_abs_diff_eq(s, o, e) THEN Returned(TRUE, FALSE, <<"abs_diff_eq">>)
    ELSE LET d == IF to_bits(s) <= to_bits(o)
                  THEN bits_sub(to_bits(o), to_bits(s))
                  ELSE bits_sub(to_bits(s), to_bits(o))
         IN  Returned(d.value <= m, d.overflowed, <<"abs_diff_eq", "to_bits">>)

\* mutant: the sign check before the absolute-difference short-circuit
ulps_eq_sign_first(s, o, e, m, checks) ==
    IF ~FEq(signum(s), signum(o))
    THEN Returned(FALSE, FALSE, <<"signum">>)
    ELSE IF float_abs_diff_eq(s, o, e)
         THEN Returned(TRUE, FALSE, <<"signum", "abs_diff_eq">>)
    ELSE LET d == IF to_bits(s) <= to_bits(o)
                  THEN bits_sub(to_bits(o), to_bits(s))
                  ELSE bits_sub(to_bits(s), to_bits(o))
         IN  Returned(d.value <= m, d.overflowed, <<"signum", "abs_diff_eq", "to_bits">>)

\* mutant: the bit patterns are subtracted without being ordered first
ulps_eq_unordered_sub(s, o, e, m, checks) ==
    IF float_abs_diff_eq(s, o, e) THEN Returned(TRUE, FALSE, <<"abs_diff_eq">>)
    ELSE IF ~FEq(signum(s), signum(o))
         THEN Returned(FALSE, FALSE, <<"abs_diff_eq", "signum">>)
    ELSE LET d == bits_sub(to_bits(o), to_bits(s))
         IN  IF d.overflowed /\ checks
             THEN Panicked(<<"abs_diff_eq", "signum", "to_bits">>)
             ELSE Returned(d.value <= m, d.overflowed,
                           <<"abs_diff_eq", "signum", "to_bits">>)

\* impl_ulps_eq!
ulps_eq(s, o, e, m, checks) ==
    IF float_abs_diff_eq(s, o, e) THEN Returned(TRUE, FALSE, <<"abs_diff_eq">>)
    ELSE IF ~FEq(signum(s), signum(o))
         THEN Returned(FALSE, FALSE, <<"abs_diff_eq", "signum">>)
    ELSE LET int_self == to_bits(s)
             int_other == to_bits(o)
             d == IF int_self <= int_other
                  THEN bits_sub(int_other, int_self)
                  ELSE bits_sub(int_self, int_other)
         IN  IF d.overflowed /\ checks
             THEN Panicked(<<"abs_diff_eq", "signum", "to_bits">>)
             ELSE Returned(d.value <= m, d.overflowed,
                           <<"abs_diff_eq", "signum", "to_bits">>)

---------------------------------------------------------------------------
(* f32 at its full width (IEEE-754 binary32), for the comparisons of the
   crate documentation that name decimal literals.  A non-negative f32 is
   its 31-bit pattern; only non-negative finite operands are modelled. *)

\* width of the fraction field of f32
F32_MAN_BITS == 23

\* the exponent field of infinity and NaN
F32_EXP_MAX == 255

\* the guard bits an addition or subtraction keeps below the larger operand
F32_GUARD == 3

F32_MAN_SIZE == Pow2(F32_MAN_BITS)

F32_INFINITY == F32_EXP_MAX * F32_MAN_SIZE

\* 1.0f32 = 0x3F800000
F32_ONE == 127 * F32_MAN_SIZE

\* f32::EPSILON = 2^-23 = 0x34000000
F32_EPSILON == (127 - F32_MAN_BITS) * F32_MAN_SIZE

\* the finite non-negative patterns
f32_is_finite(p) == p >= 0 /\ p < F32_INFINITY

\* exponent of the last place: the value is f32_significand * 2^(f32_scale - 150)
f32_scale(p) == IF p \div F32_MAN_SIZE = 0 THEN 1 ELSE p \div F32_MAN_SIZE

f32_significand(p) ==
    IF p \div F32_MAN_SIZE = 0 THEN p ELSE F32_MAN_SIZE + (p % F32_MAN_SIZE)

RECURSIVE BitLen(_)
BitLen(n) == IF n = 0 THEN 0 ELSE 1 + BitLen(n \div 2)

\* (D + t) * 2^(q - 150), with 0 < t < 1 when sticky and t = 0 otherwise,
\* rounded to the nearest f32, ties to even
f32_round(D, sticky, q) ==
    LET need == BitLen(D) - (F32_MAN_BITS + 1)
        k == IF need >= 1 - q THEN need ELSE 1 - q
    IN  IF D = 0 THEN 0
        ELSE IF k <= 0
        THEN LET room == IF 0 - need <= q - 1 THEN 0 - need ELSE q - 1
             IN  (q - room - 1) * F32_MAN_SIZE + D * Pow2(room)
        ELSE LET trunc == D \div Pow2(k)
                 rem == D % Pow2(k)
                 half == Pow2(k - 1)
                 up == rem > half \/ (rem = half /\ (sticky \/ trunc % 2 = 1))
                 bits == (q + k - 1) * F32_MAN_SIZE + trunc + (IF up THEN 1 ELSE 0)
             IN  IF bits >= F32_INFINITY THEN F32_INFINITY ELSE bits

\* the smaller operand aligned to the guard bits of the larger: its
\* significand shifted right, and whether anything non-zero was shifted out
f32_align(hi, lo) ==
    LET d == f32_scale(hi) - f32_scale(lo)
        shift == IF d > F32_MAN_BITS + 1 + F32_GUARD THEN F32_MAN_BITS + 1 + F32_GUARD ELSE d
        wide == f32_significand(lo) * Pow2(F32_GUARD)
    IN  [value |-> wide \div Pow2(shift), sticky |-> wide % Pow2(shift) # 0]

\* a + b of two finite non-negative f32
f32_add(a, b) ==
    LET hi == IF a >= b THEN a ELSE b
        lo == IF a >= b THEN b ELSE a
        al == f32_align(hi, lo)
    IN  f32_round(f32_significand(hi) * Pow2(F32_GUARD) + al.value, al.sticky,
                  f32_scale(hi) - F32_GUARD)

\* (a - b).abs() of two finite non-negative f32
f32_abs_sub(a, b) ==
    LET hi == IF a >= b THEN a ELSE b
        lo == IF a >= b THEN b ELSE a
        al == f32_align(hi, lo)
    IN  f32_round(f32_significand(hi) * Pow2(F32_GUARD) - al.value
                      - (IF al.sticky THEN 1 ELSE 0),
                  al.sticky, f32_scale(hi) - F32_GUARD)

\* k units in the last place of 1.0f32: k * f32::EPSILON
f32_ulps_of_one(k) == f32_round(k, FALSE, 127)

\* 1e-17f32 = 0x233877AA, the f32 nearest to 10^-17 (about 2^-56.5)
F32_1E_17 == 590903210

\* 1e-15f32 = 0x26901D7D, the f32 nearest to 10^-15 (about 2^-49.8)
F32_1E_15 == 646978941

\* default_max_ulps() of f32, f64
default_max_ulps == 4

\* f32::abs_diff_eq on finite non-negative operands
f32_abs_diff_eq(s, o, e) == f32_abs_sub(s, o) <= e

\* f32::signum of a non-negative number that is not NaN
f32_signum(p) == F32_ONE

\* mutant: the ULP bound taken as exclusive
f32_ulps_eq_strict(s, o, e, m) ==
    IF f32_abs_diff_eq(s, o, e) THEN Returned(TRUE, FALSE, <<"abs_diff_eq">>)
    ELSE IF f32_signum(s) # f32_signum(o)
         THEN Returned(FALSE, FALSE, <<"abs_diff_eq", "signum">>)
    ELSE Returned((IF s <= o THEN o - s ELSE s - o) < m, FALSE,
                  <<"abs_diff_eq", "signum", "to_bits">>)

\* f32::ulps_eq on finite non-negative operands, whose bit patterns are
\* the numbers themselves
f32_ulps_eq(s, o, e, m) ==
    IF f32_abs_diff_eq(s, o, e) THEN Returned(TRUE, FALSE, <<"abs_diff_eq">>)
    ELSE IF f32_signum(s) # f32_signum(o)
         THEN Returned(FALSE, FALSE, <<"abs_diff_eq", "signum">>)
    ELSE LET int_self == s
             int_other == o
         IN  Returned(IF int_self <= int_other
                      THEN int_other - int_self <= m
                      ELSE int_self - int_other <= m,
                      FALSE, <<"abs_diff_eq", "signum", "to_bits">>)

---------------------------------------------------------------------------
(* Derived comparisons: the three traits on containers of floats *)

Strategies == {"abs_diff_eq", "relative_eq", "ulps_eq"}

\* the floats the elements of a container are drawn from: 1.0, its
\* successor and NaN
Elements == {ONE, ONE + 1, NAN}

\* the tolerances a container is compared with
Tolerances == {ZERO, EPSILON}

UlpsBounds == {0, 1}

\* the parameters a strategy takes: epsilon for all three, max_relative
\* for relative_eq, max_ulps for ulps_eq
ParamsOf(strat, eps, rel) ==
    [e : eps,
     m : IF strat = "relative_eq" THEN rel ELSE {0},
     u : IF strat = "ulps_eq" THEN UlpsBounds ELSE {0}]

\* A::abs_diff_eq(x, y, epsilon), A::relative_eq(x, y, epsilon, max_relative)
\* or A::ulps_eq(x, y, epsilon, max_ulps) on the element type
elem_eq(strat, x, y, e, m, u) ==
    CASE strat = "abs_diff_eq" -> float_abs_diff_eq(x, y, e)
      [] strat = "relative_eq" -> relative_eq(x, y, e, m).result
      [] strat = "ulps_eq" -> ulps_eq(x, y, e, u, FALSE).result

SetMin(S) == CHOOSE x \in S : \A y \in S : x <= y

\* mutant: every pair is compared, also after one has failed
zip_all_exhaustive(strat, xs, ys, e, m, u) ==
    LET n == IF Len(xs) <= Len(ys) THEN Len(xs) ELSE Len(ys)
        fails == {i \in 1..n : ~elem_eq(strat, xs[i], ys[i], e, m, u)}
    IN  Returned(fails = {}, FALSE, [i \in 1..n |-> i])

\* Iterator::zip(self.iter(), other).all(..): the pairs are compared in
\* order, every one with the same parameters, up to the first that fails
zip_all(strat, xs, ys, e, m, u) ==
    LET n == IF Len(xs) <= Len(ys) THEN Len(xs) ELSE Len(ys)
        fails == {i \in 1..n : ~elem_eq(strat, xs[i], ys[i], e, m, u)}
        last == IF fails = {} THEN n ELSE SetMin(fails)
    IN  Returned(fails = {}, FALSE, [i \in 1..last |-> i])

\* mutant: the lengths are not compared
slice_eq_no_len(strat, xs, ys, e, m, u) == zip_all(strat, xs, ys, e, m, u)

\* [A] against [B]
slice_eq(strat, xs, ys, e, m, u) ==
    IF Len(xs) # Len(ys) THEN Returned(FALSE, FALSE, <<>>)
    ELSE zip_all(strat, xs, ys, e, m, u)

\* [A; N] against [B; N]
array_eq(strat, xs, ys, e, m, u) ==
    IF Len(xs) # Len(ys) THEN Returned(FALSE, FALSE, <<>>)
    ELSE zip_all(strat, xs, ys, e, m, u)

\* Vec<A> against Vec<B>
vec_relative_eq(xs, ys, e, m) ==
    IF Len(xs) # Len(ys) THEN Returned(FALSE, FALSE, <<>>)
    ELSE zip_all("relative_eq", xs, ys, e, m, 0)

\* An IndexMap is the sequence of its entries <<key, value>> in insertion
\* order, no key twice.
MapKeys == 1..MaxKeys

MapValues == {ONE, ONE + 1}

IsMap(es) == \A i \in 1..Len(es), j \in 1..Len(es) : es[i][1] = es[j][1] => i = j

MapsUpTo(n) ==
    {es \in UNION {[1..k -> MapKeys \X MapValues] : k \in 0..n} : IsMap(es)}

keys(es) == {es[i][1] : i \in 1..Len(es)}

\* mutant: the other map is read by position
get_by_position(es, key) == IF key <= Len(es) THEN <<es[key][2]>> ELSE <<>>

\* other.get(key): Some(value) as <<value>>, None as <<>>
get(es, key) ==
    IF key \in keys(es)
    THEN <<es[CHOOSE i \in 1..Len(es) : es[i][1] = key][2]>>
    ELSE <<>>

\* other.get(key).map_or(false, |v| V1::relative_eq(value, v, ..)) for the
\* i-th entry of self
entry_eq(xs, ys, i, e, m) ==
    LET found == get(ys, xs[i][1])
    IN  IF found = <<>> THEN FALSE
        ELSE relative_eq(xs[i][2], found[1], e, m).result

\* self.iter().all(..): the entries of self in insertion order, up to the
\* first that fails
entries_all(xs, ys, e, m) ==
    LET fails == {i \in 1..Len(xs) : ~entry_eq(xs, ys, i, e, m)}
        last == IF fails = {} THEN Len(xs) ELSE SetMin(fails)
    IN  Returned(fails = {}, FALSE, [i \in 1..last |-> xs[i][1]])

\* mutant: the cardinalities are not compared
map_relative_eq_no_len(xs, ys, e, m) == entries_all(xs, ys, e, m)

\* IndexMap<K, V1, S1> against IndexMap<K, V2, S2>
map_relative_eq(xs, ys, e, m) ==
    IF Len(xs) # Len(ys) THEN Returned(FALSE, FALSE, <<>>)
    ELSE entries_all(xs, ys, e, m)

\* Option<T>: None is <<>>, Some(x) is <<x>>
Options == {<<>>} \cup {<<x>> : x \in Elements}

\* mutant: a missing value compares equal to anything
option_eq_none_matches(strat, a, b, e, m, u) ==
    IF a # <<>> /\ b # <<>>
    THEN Returned(elem_eq(strat, a[1], b[1], e, m, u), FALSE, <<1>>)
    ELSE Returned(TRUE, FALSE, <<>>)

\* match (self, other) on two options
option_eq(strat, a, b, e, m, u) ==
    IF a # <<>> /\ b # <<>>
    THEN Returned(elem_eq(strat, a[1], b[1], e, m, u), FALSE, <<1>>)
    ELSE IF a = <<>> /\ b = <<>> THEN Returned(TRUE, FALSE, <<>>)
    ELSE Returned(FALSE, FALSE, <<>>)

\* Result<T, E>: Ok(x) and Err(x)
Ok(x) == [ok |-> TRUE, value |-> x]

Err(x) == [ok |-> FALSE, value |-> x]

Results == {Ok(x) : x \in Elements} \cup {Err(x) : x \in Elements}

\* the parameters of a comparison whose tolerance has n components: an
\* epsilon for every component, a max_relative for every component under
\* relative_eq, one max_ulps under ulps_eq
SlotParamsOf(strat, n) ==
    [e : [1..n -> Tolerances],
     m : IF strat = "relative_eq" THEN [1..n -> Tolerances] ELSE {[i \in 1..n |-> ZERO]},
     u : IF strat = "ulps_eq" THEN UlpsBounds ELSE {0}]

\* mutant: both variants read the first slot of the tolerance
result_eq_first_slot(strat, a, b, e, m, u) ==
    IF a.ok = b.ok
    THEN Returned(elem_eq(strat, a.value, b.value, e[1], m[1], u), FALSE, <<1>>)
    ELSE Returned(FALSE, FALSE, <<>>)

\* match (self, other) on two results: epsilon.0 and max_relative.0 are
\* e[1] and m[1], epsilon.1 and max_relative.1 are e[2] and m[2]
result_eq(strat, a, b, e, m, u) ==
    IF a.ok /\ b.ok
    THEN Returned(elem_eq(strat, a.value, b.value, e[1], m[1], u), FALSE, <<1>>)
    ELSE IF ~a.ok /\ ~b.ok
    THEN Returned(elem_eq(strat, a.value, b.value, e[2], m[2], u), FALSE, <<2>>)
    ELSE Returned(FALSE, FALSE, <<>>)

\* the largest tuple the traits are implemented for
TUPLE_ARITY == 12

TupleArities == {n \in 0..MaxArity : n <= TUPLE_ARITY}

\* mutant: every position is compared with the first component of the
\* tolerance
tuple_eq_first_component(strat, xs, ys, e, m, u) ==
    Returned(\A i \in 1..Len(xs) : elem_eq(strat, xs[i], ys[i], e[1], m[1], u),
             FALSE, <<>>)

\* true $( && self.$idx.abs_diff_eq(&other.$idx, epsilon.$idx) )+ and its
\* relative_eq and ulps_eq forms; the empty tuple returns true.  Position
\* $idx is index $idx + 1 here.
tuple_eq(strat, xs, ys, e, m, u) ==
    LET fails == {i \in 1..Len(xs) : ~elem_eq(strat, xs[i], ys[i], e[i], m[i], u)}
        last == IF fails = {} THEN Len(xs) ELSE SetMin(fails)
    IN  Returned(fails = {}, FALSE, [i \in 1..last |-> i])

\* Complex<T> is [re, im]
Complexes == [re : Elements, im : Elements]

\* Complex<T>: the real parts, and if they are equal the imaginary parts,
\* with the same parameters; position 1 is re, position 2 is im
complex_eq(strat, a, b, e, m, u) ==
    IF ~elem_eq(strat, a.re, b.re, e, m, u) THEN Returned(FALSE, FALSE, <<1>>)
    ELSE Returned(elem_eq(strat, a.im, b.im, e, m, u), FALSE, <<1, 2>>)

\* &T, &mut T, Cell<T>, NotNan<T>, OrderedFloat<T>: the wrapped float is
\* read with *self, self.get() or self.into_inner() and T's comparison is
\* called on it.  A wrapper is [wrapper, value]; a bare float is wrapped
\* as "bare".
Wrappers == {"ref", "ref_mut", "cell", "not_nan", "ordered_float"}

\* NotNan::new refuses NaN
Wrapped(w) ==
    [wrapper : {w}, value : IF w = "not_nan" THEN Elements \ {NAN} ELSE Elements]

wrapper_eq(strat, a, b, e, m, u) ==
    Returned(elem_eq(strat, a.value, b.value, e, m, u), FALSE, <<>>)

\* A RefCell is [cell, value, borrow]: which cell it is, what it holds and
\* the borrows its caller holds on it when the comparison is called.
BorrowStates == {"unborrowed", "shared", "mut"}

RefCells == [cell : 1..2, value : Elements, borrow : BorrowStates]

\* RefCell::borrow panics while the cell is mutably borrowed
BorrowPanicked(st) ==
    [panicked |-> TRUE, overflowed |-> FALSE, result |-> None, steps |-> st]

\* T::abs_diff_eq(&self.borrow(), &other.borrow(), epsilon) and its
\* relative_eq and ulps_eq forms: self is borrowed, then other, then the
\* values are compared and both borrows are dropped
refcell_eq(strat, a, b, e, m, u) ==
    IF a.borrow = "mut" THEN BorrowPanicked(<<"borrow">>)
    ELSE IF b.borrow = "mut" THEN BorrowPanicked(<<"borrow", "borrow">>)
    ELSE Returned(elem_eq(strat, a.value, b.value, e, m, u), FALSE,
                  <<"borrow", "borrow">>)

\* mutant: the guards returned by borrow() are never dropped
refcell_after_leaked(a, b) ==
    LET flag(c) == IF c.borrow = "unborrowed" THEN 0 ELSE 1
        n == IF a.cell = b.cell THEN 2 ELSE 1
        state_of(f) == IF f = 0 THEN "unborrowed" ELSE "shared"
        settle(c) == IF c.borrow = "mut" THEN c
                     ELSE [c EXCEPT !.borrow = state_of(flag(c) + n)]
    IN  IF "mut" \in {a.borrow, b.borrow} THEN <<a, b>> ELSE <<settle(a), settle(b)>>

\* The two cells once the comparison is over.  borrow() adds one to the
\* cell's count of shared borrows and the guard it returns takes one off
\* when dropped, at the end of the call or while a panic unwinds; a cell
\* that is both operands is borrowed twice.
refcell_after(a, b) ==
    LET flag(c) == IF c.borrow = "unborrowed" THEN 0 ELSE 1
        n == IF a.cell = b.cell THEN 2 ELSE 1
        state_of(f) == IF f = 0 THEN "unborrowed" ELSE "shared"
        settle(c) == IF c.borrow = "mut" THEN c
                     ELSE [c EXCEPT !.borrow = state_of((flag(c) + n) - n)]
    IN  IF "mut" \in {a.borrow, b.borrow} THEN <<a, b>> ELSE <<settle(a), settle(b)>>

\* the operands after a call: every comparison takes them by shared
\* reference and reads Cell with get(), so only a RefCell's borrow count
\* is ever written
operands_after(name, s, o) ==
    IF name = "refcell" THEN refcell_after(s, o) ELSE <<s, o>>

---------------------------------------------------------------------------
(* default_max_ulps() of the types that implement UlpsEq *)

\* A type is [ctor, args]: a float, or a type built from other types; the
\* unit type () is the tuple of no types.
Ty(c, args) == [ctor |-> c, args |-> args]

\* the types asked for their default: floats and (), what wraps them once,
\* tuples of these, and what wraps or joins those once more
Types ==
    LET base == {Ty("float", <<>>), Ty("tuple", <<>>)}
        unary == {"option", "ref", "ref_mut", "cell", "refcell", "slice", "array",
                  "complex"}
        wrap(S) == {Ty(c, <<t>>) : c \in unary, t \in S}
        results(S) == {Ty("result", <<a, b>>) : a \in S, b \in S}
        floats == {Ty(c, <<Ty("float", <<>>)>>) : c \in {"not_nan", "ordered_float"}}
        slots == base \cup {Ty("option", <<Ty("tuple", <<>>)>>),
                            Ty("result", <<Ty("tuple", <<>>), Ty("float", <<>>)>>)}
        tuples == UNION {{Ty("tuple", a) : a \in [1..n -> slots]} : n \in TupleArities}
        first == base \cup wrap(base) \cup results(base) \cup floats \cup tuples
    IN  first \cup wrap(first) \cup results(first)

\* u32::max
max(a, b) == IF a >= b THEN a ELSE b

\* mutant: the empty tuple has the default of a float
RECURSIVE default_max_ulps_of_unit_as_float(_)
default_max_ulps_of_unit_as_float(ty) ==
    LET d(i) == default_max_ulps_of_unit_as_float(ty.args[i])
        RECURSIVE fold(_)
        fold(i) == IF i = 0 THEN default_max_ulps ELSE max(fold(i - 1), d(i))
    IN  CASE ty.ctor = "float" -> default_max_ulps
          [] ty.ctor = "tuple" -> fold(Len(ty.args))
          [] ty.ctor = "result" -> max(d(1), d(2))
          [] OTHER -> d(1)

\* <ty as UlpsEq>::default_max_ulps(): 4 for a float, 0 for (),
\* `0.max(T0's).max(T1's)...` for a tuple, `T's.max(E's)` for Result<T, E>,
\* and the default of the element type for every other type
RECURSIVE default_max_ulps_of(_)
default_max_ulps_of(ty) ==
    LET d(i) == default_max_ulps_of(ty.args[i])
        RECURSIVE fold(_)
        fold(i) == IF i = 0 THEN 0 ELSE max(fold(i - 1), d(i))
    IN  CASE ty.ctor = "float" -> default_max_ulps
          [] ty.ctor = "tuple" -> fold(Len(ty.args))
          [] ty.ctor = "result" -> max(d(1), d(2))
          [] OTHER -> d(1)

---------------------------------------------------------------------------
(* The parameter objects AbsDiff, Relative and Ulps *)

\* the primitive types with an AbsDiffEq impl; RelativeEq and UlpsEq are
\* implemented for the floats only
PrimitiveTypes == {"unsigned", "signed", "float"}

\* mutant: zero for every type
default_epsilon_zero(ty) == int_default_epsilon

\* A::default_epsilon()
default_epsilon(ty) ==
    IF ty = "float" THEN float_default_epsilon ELSE int_default_epsilon

\* default_max_relative() of f32, f64: $T::EPSILON
default_max_relative == EPSILON

\* AbsDiff::default()
AbsDiff_default(ty) ==
    [kind |-> "AbsDiff", type |-> ty, history |-> <<>>,
     epsilon |-> default_epsilon(ty)]

\* Relative::default()
Relative_default ==
    [kind |-> "Relative", type |-> "float", history |-> <<>>,
     epsilon |-> default_epsilon("float"), max_relative |-> default_max_relative]

\* Ulps::default()
Ulps_default ==
    [kind |-> "Ulps", type |-> "float", history |-> <<>>,
     epsilon |-> default_epsilon("float"), max_ulps |-> default_max_ulps]

\* mutant: epsilon() rebuilds the object from its defaults
params_epsilon_resets(p, e) ==
    LET h == Append(p.history, <<"epsilon", e>>)
    IN  CASE p.kind = "AbsDiff" -> [p EXCEPT !.epsilon = e, !.history = h]
          [] p.kind = "Relative" ->
                [p EXCEPT !.epsilon = e, !.history = h,
                          !.max_relative = default_max_relative]
          [] p.kind = "Ulps" ->
                [p EXCEPT !.epsilon = e, !.history = h,
                          !.max_ulps = default_max_ulps]

\* AbsDiff::epsilon, Relative::epsilon, Ulps::epsilon: the object with this
\* tolerance and every other field as it was.  history is the chain of
\* mutator calls that built the object.
params_epsilon(p, e) ==
    [p EXCEPT !.epsilon = e, !.history = Append(@, <<"epsilon", e>>)]

\* Relative::max_relative
params_max_relative(p, m) ==
    [p EXCEPT !.max_relative = m, !.history = Append(@, <<"max_relative", m>>)]

\* Ulps::max_ulps
params_max_ulps(p, u) ==
    [p EXCEPT !.max_ulps = u, !.history = Append(@, <<"max_ulps", u>>)]

\* the capability method a parameter object forwards to
MethodOf(p) ==
    CASE p.kind = "AbsDiff" /\ p.type = "unsigned" -> "unsigned_abs_diff_eq"
      [] p.kind = "AbsDiff" /\ p.type = "signed" -> "signed_abs_diff_eq"
      [] p.kind = "AbsDiff" /\ p.type = "float" -> "float_abs_diff_eq"
      [] p.kind = "Relative" -> "relative_eq"
      [] p.kind = "Ulps" -> "ulps_eq"

\* the equality method `name` of a primitive type
method(name, s, o, e, m, u, checks) ==
    CASE name = "unsigned_abs_diff_eq" -> unsigned_abs_diff_eq(s, o, e, checks)
      [] name = "signed_abs_diff_eq" -> signed_abs_diff_eq(s, o, e, checks)
      [] name = "float_abs_diff_eq" ->
            Returned(float_abs_diff_eq(s, o, e), FALSE, <<"sub", "abs", "le">>)
      [] name = "relative_eq" -> relative_eq(s, o, e, m)
      [] name = "ulps_eq" -> ulps_eq(s, o, e, u, checks)

\* mutant: the inequality returns what the equality returned
same_outcome(r) == r

\* `!` applied to the outcome of a call; a panic leaves nothing to negate
negate(r) == IF r.panicked THEN r ELSE [r EXCEPT !.result = ~r.result]

\* abs_diff_ne, relative_ne, ulps_ne: the default methods of the traits
ne(name, s, o, e, m, u, checks) == negate(method(name, s, o, e, m, u, checks))

\* AbsDiff::eq, Relative::eq, Ulps::eq
params_eq(p, lhs, rhs, checks) ==
    CASE p.kind = "AbsDiff" -> method(MethodOf(p), lhs, rhs, p.epsilon, 0, 0, checks)
      [] p.kind = "Relative" ->
            method("relative_eq", lhs, rhs, p.epsilon, p.max_relative, 0, checks)
      [] p.kind = "Ulps" ->
            method("ulps_eq", lhs, rhs, p.epsilon, 0, p.max_ulps, checks)

\* AbsDiff::ne, Relative::ne, Ulps::ne
params_ne(p, lhs, rhs, checks) ==
    CASE p.kind = "AbsDiff" -> ne(MethodOf(p), lhs, rhs, p.epsilon, 0, 0, checks)
      [] p.kind = "Relative" ->
            ne("relative_eq", lhs, rhs, p.epsilon, p.max_relative, 0, checks)
      [] p.kind = "Ulps" ->
            ne("ulps_eq", lhs, rhs, p.epsilon, 0, p.max_ulps, checks)

---------------------------------------------------------------------------
(* The caller: one comparison at a time *)

Init ==
    /\ pc = "idle"
    /\ op = None
    /\ self = 0
    /\ other = 0
    /\ epsilon = 0
    /\ max_relative = 0
    /\ max_ulps = 0
    /\ overflow_checks = FALSE
    /\ overflowed = FALSE
    /\ steps = <<>>
    /\ result = None
    /\ strategy = None
    /\ params = None
    /\ after = <<0, 0>>

\* the state after a call that ended with outcome r
Finish(name, s, o, e, m, u, checks, r) ==
    /\ pc' = IF r.panicked THEN "panicked" ELSE "done"
    /\ op' = name
    /\ self' = s
    /\ other' = o
    /\ epsilon' = e
    /\ max_relative' = m
    /\ max_ulps' = u
    /\ overflow_checks' = checks
    /\ overflowed' = r.overflowed
    /\ steps' = r.steps
    /\ result' = r.result
    /\ strategy' = None
    /\ params' = None
    /\ after' = operands_after(name, s, o)

UnsignedAbsDiffEq ==
    /\ pc = "idle"
    /\ \E s \in UnsignedInts, o \in UnsignedInts, e \in UnsignedInts, checks \in BOOLEAN :
          Finish("unsigned_abs_diff_eq", s, o, e, 0, 0, checks,
                 unsigned_abs_diff_eq(s, o, e, checks))

SignedAbsDiffEq ==
    /\ pc = "idle"
    /\ \E s \in SignedInts, o \in SignedInts, e \in SignedInts, checks \in BOOLEAN :
          Finish("signed_abs_diff_eq", s, o, e, 0, 0, checks,
                 signed_abs_diff_eq(s, o, e, checks))

FloatAbsDiffEq ==
    /\ pc = "idle"
    /\ \E s \in Floats, o \in Floats, e \in Floats :
          Finish("float_abs_diff_eq", s, o, e, 0, 0, FALSE,
                 Returned(float_abs_diff_eq(s, o, e), FALSE, <<"sub", "abs", "le">>))

RelativeEq ==
    /\ pc = "idle"
    /\ \E s \in Floats, o \in Floats, e \in Floats, m \in Floats :
          Finish("relative_eq", s, o, e, m, 0, FALSE, relative_eq(s, o, e, m))

UlpsEq ==
    /\ pc = "idle"
    /\ \E s \in Floats, o \in Floats, e \in Floats, u \in 0..MaxUlps, checks \in BOOLEAN :
          Finish("ulps_eq", s, o, e, 0, u, checks, ulps_eq(s, o, e, u, checks))

\* what the documentation's examples add to 1.0f32: the two decimal
\* literals and whole numbers of units in the last place
F32Addends == {0, F32_1E_17, F32_1E_15} \cup {f32_ulps_of_one(k) : k \in 1..(MaxUlps + 1)}

\* ulps_eq on f32 between 1.0f32 and 1.0f32 + x, in either operand order
UlpsEqF32 ==
    /\ pc = "idle"
    /\ \E x \in F32Addends, y \in F32Addends, e \in {0, F32_EPSILON}, u \in 0..MaxUlps :
          LET s == f32_add(F32_ONE, x)
              o == f32_add(F32_ONE, y)
          IN  Finish("f32_ulps_eq", s, o, e, 0, u, FALSE, f32_ulps_eq(s, o, e, u))

\* the state after a derived comparison that ended with outcome r
FinishDerived(shape, strat, s, o, e, m, u, r) ==
    /\ pc' = IF r.panicked THEN "panicked" ELSE "done"
    /\ op' = shape
    /\ self' = s
    /\ other' = o
    /\ epsilon' = e
    /\ max_relative' = m
    /\ max_ulps' = u
    /\ overflow_checks' = FALSE
    /\ overflowed' = r.overflowed
    /\ steps' = r.steps
    /\ result' = r.result
    /\ strategy' = strat
    /\ params' = None
    /\ after' = operands_after(shape, s, o)

\* the sequences of at most n elements
SeqsUpTo(n) == UNION {[1..k -> Elements] : k \in 0..n}

SliceEq ==
    /\ pc = "idle"
    /\ \E strat \in Strategies, xs \in SeqsUpTo(MaxLen), ys \in SeqsUpTo(MaxLen) :
       \E p \in ParamsOf(strat, Tolerances, Tolerances) :
          FinishDerived("slice", strat, xs, ys, p.e, p.m, p.u,
                        slice_eq(strat, xs, ys, p.e, p.m, p.u))

\* both arrays have the length N of their type
ArrayEq ==
    /\ pc = "idle"
    /\ \E strat \in Strategies, N \in 0..MaxLen :
       \E xs \in [1..N -> Elements], ys \in [1..N -> Elements] :
       \E p \in ParamsOf(strat, Tolerances, Tolerances) :
          FinishDerived("array", strat, xs, ys, p.e, p.m, p.u,
                        array_eq(strat, xs, ys, p.e, p.m, p.u))

VecRelativeEq ==
    /\ pc = "idle"
    /\ \E xs \in SeqsUpTo(MaxLen), ys \in SeqsUpTo(MaxLen) :
       \E p \in ParamsOf("relative_eq", Tolerances, Tolerances) :
          FinishDerived("vec", "relative_eq", xs, ys, p.e, p.m, p.u,
                        vec_relative_eq(xs, ys, p.e, p.m))

MapRelativeEq ==
    /\ pc = "idle"
    /\ \E xs \in MapsUpTo(MaxLen), ys \in MapsUpTo(MaxLen) :
       \E p \in ParamsOf("relative_eq", Tolerances, Tolerances) :
          FinishDerived("map", "relative_eq", xs, ys, p.e, p.m, p.u,
                        map_relative_eq(xs, ys, p.e, p.m))

OptionEq ==
    /\ pc = "idle"
    /\ \E strat \in Strategies, a \in Options, b \in Options :
       \E p \in ParamsOf(strat, Tolerances, Tolerances) :
          FinishDerived("option", strat, a, b, p.e, p.m, p.u,
                        option_eq(strat, a, b, p.e, p.m, p.u))

ResultEq ==
    /\ pc = "idle"
    /\ \E strat \in Strategies, a \in Results, b \in Results :
       \E p \in SlotParamsOf(strat, 2) :
          FinishDerived("result", strat, a, b, p.e, p.m, p.u,
                        result_eq(strat, a, b, p.e, p.m, p.u))

\* both tuples have the arity n of their type
TupleEq ==
    /\ pc = "idle"
    /\ \E strat \in Strategies, n \in TupleArities :
       \E xs \in [1..n -> Elements], ys \in [1..n -> Elements] :
       \E p \in SlotParamsOf(strat, n) :
          FinishDerived("tuple", strat, xs, ys, p.e, p.m, p.u,
                        tuple_eq(strat, xs, ys, p.e, p.m, p.u))

ComplexEq ==
    /\ pc = "idle"
    /\ \E strat \in Strategies, a \in Complexes, b \in Complexes :
       \E p \in ParamsOf(strat, Tolerances, Tolerances) :
          FinishDerived("complex", strat, a, b, p.e, p.m, p.u,
                        complex_eq(strat, a, b, p.e, p.m, p.u))

\* two wrappers of the same kind, or NotNan / OrderedFloat on the left and
\* a bare float on the right
WrapperEq ==
    /\ pc = "idle"
    /\ \E strat \in Strategies, w \in Wrappers :
       \E a \in Wrapped(w),
          b \in Wrapped(w) \cup (IF w \in {"not_nan", "ordered_float"}
                                 THEN Wrapped("bare") ELSE {}) :
       \E p \in ParamsOf(strat, Tolerances, Tolerances) :
          FinishDerived("wrapper", strat, a, b, p.e, p.m, p.u,
                        wrapper_eq(strat, a, b, p.e, p.m, p.u))

\* two RefCells, or one RefCell with itself
RefCellEq ==
    /\ pc = "idle"
    /\ \E strat \in Strategies, a \in RefCells, b \in RefCells :
       \E p \in ParamsOf(strat, Tolerances, Tolerances) :
          /\ a.cell = b.cell => a = b
          /\ FinishDerived("refcell", strat, a, b, p.e, p.m, p.u,
                           refcell_eq(strat, a, b, p.e, p.m, p.u))

\* AbsDiff::default(), Relative::default() or Ulps::default()
ParamsDefault ==
    /\ pc = "idle"
    /\ pc' = "building"
    /\ params' \in {AbsDiff_default(ty) : ty \in PrimitiveTypes}
                       \cup {Relative_default, Ulps_default}
    /\ UNCHANGED <<op, self, other, epsilon, max_relative, max_ulps,
                   overflow_checks, overflowed, steps, result, strategy, after>>

\* the tolerances a caller sets, all different from the defaults
SetEpsilons(ty) == IF ty = "float" THEN {ZERO, ONE} ELSE {1, 2}

\* .epsilon(e) on the object under construction
ParamsEpsilon ==
    /\ pc = "building"
    /\ Len(params.history) < MaxChain
    /\ \E e \in SetEpsilons(params.type) : params' = params_epsilon(params, e)
    /\ UNCHANGED <<pc, op, self, other, epsilon, max_relative, max_ulps,
                   overflow_checks, overflowed, steps, result, strategy, after>>

\* .max_relative(m) on a Relative under construction
ParamsMaxRelative ==
    /\ pc = "building"
    /\ params.kind = "Relative"
    /\ Len(params.history) < MaxChain
    /\ \E m \in {ZERO, ONE} : params' = params_max_relative(params, m)
    /\ UNCHANGED <<pc, op, self, other, epsilon, max_relative, max_ulps,
                   overflow_checks, overflowed, steps, result, strategy, after>>

\* .max_ulps(u) on an Ulps under construction
ParamsMaxUlps ==
    /\ pc = "building"
    /\ params.kind = "Ulps"
    /\ Len(params.history) < MaxChain
    /\ \E u \in UlpsBounds : params' = params_max_ulps(params, u)
    /\ UNCHANGED <<pc, op, self, other, epsilon, max_relative, max_ulps,
                   overflow_checks, overflowed, steps, result, strategy, after>>

\* the operands a parameter object is applied to
ParamsOperands(ty) ==
    CASE ty = "float" -> Elements \cup {ZERO}
      [] ty = "signed" -> {SignedMin, 0, 1, 2}
      [] ty = "unsigned" -> {0, 1, 2}

\* the state after a call made through the method `strat`, on behalf of
\* the parameter object p if there is one, ended with outcome r
FinishCall(name, strat, p, s, o, e, m, u, checks, r) ==
    /\ pc' = IF r.panicked THEN "panicked" ELSE "done"
    /\ op' = name
    /\ self' = s
    /\ other' = o
    /\ epsilon' = e
    /\ max_relative' = m
    /\ max_ulps' = u
    /\ overflow_checks' = checks
    /\ overflowed' = r.overflowed
    /\ steps' = r.steps
    /\ result' = r.result
    /\ strategy' = strat
    /\ params' = p
    /\ after' = operands_after(name, s, o)

\* the state after p.eq(s, o) or p.ne(s, o) ended with outcome r
FinishParams(name, p, s, o, checks, r) ==
    FinishCall(name, MethodOf(p), p, s, o, p.epsilon,
               IF p.kind = "Relative" THEN p.max_relative ELSE 0,
               IF p.kind = "Ulps" THEN p.max_ulps ELSE 0, checks, r)

\* .eq(lhs, rhs), the terminal call of the chain
ParamsEq ==
    /\ pc = "building"
    /\ \E s \in ParamsOperands(params.type), o \in ParamsOperands(params.type),
          checks \in (IF params.type = "signed" THEN BOOLEAN ELSE {FALSE}) :
          FinishParams("params_eq", params, s, o, checks,
                       params_eq(params, s, o, checks))

\* .ne(lhs, rhs), the terminal call of the chain
ParamsNe ==
    /\ pc = "building"
    /\ \E s \in ParamsOperands(params.type), o \in ParamsOperands(params.type),
          checks \in (IF params.type = "signed" THEN BOOLEAN ELSE {FALSE}) :
          FinishParams("params_ne", params, s, o, checks,
                       params_ne(params, s, o, checks))

\* the operands of the inequality methods
NeOperands(name) ==
    CASE name = "unsigned_abs_diff_eq" -> UnsignedInts
      [] name = "signed_abs_diff_eq" -> SignedInts
      [] OTHER -> {ZERO, NEG_ZERO, ONE, ONE + 1, NEG_ONE, INFINITY, NAN}

NeTolerances(name) ==
    CASE name = "unsigned_abs_diff_eq" -> {0, 1, UnsignedMax}
      [] name = "signed_abs_diff_eq" -> {0, 1, SignedMax}
      [] OTHER -> {ZERO, EPSILON, ONE}

\* abs_diff_ne, relative_ne or ulps_ne on a primitive type
Ne ==
    /\ pc = "idle"
    /\ \E name \in {"unsigned_abs_diff_eq", "signed_abs_diff_eq",
                    "float_abs_diff_eq", "relative_eq", "ulps_eq"} :
       \E s \in NeOperands(name), o \in NeOperands(name), e \in NeTolerances(name),
          m \in (IF name = "relative_eq" THEN NeTolerances(name) ELSE {0}),
          u \in (IF name = "ulps_eq" THEN UlpsBounds ELSE {0}),
          checks \in (IF name \in {"float_abs_diff_eq", "relative_eq"}
                      THEN {FALSE} ELSE BOOLEAN) :
          FinishCall("ne", name, None, s, o, e, m, u, checks,
                     ne(name, s, o, e, m, u, checks))

\* the comparison `name` made through the method `strat`, on behalf of the
\* parameter object p if there is one
call(name, strat, p, s, o, e, m, u, checks) ==
    CASE name \in {"unsigned_abs_diff_eq", "signed_abs_diff_eq", "float_abs_diff_eq",
                   "relative_eq", "ulps_eq"} -> method(name, s, o, e, m, u, checks)
      [] name = "f32_ulps_eq" -> f32_ulps_eq(s, o, e, u)
      [] name = "ne" -> ne(strat, s, o, e, m, u, checks)
      [] name = "params_eq" -> params_eq(p, s, o, checks)
      [] name = "params_ne" -> params_ne(p, s, o, checks)
      [] name = "slice" -> slice_eq(strat, s, o, e, m, u)
      [] name = "array" -> array_eq(strat, s, o, e, m, u)
      [] name = "vec" -> vec_relative_eq(s, o, e, m)
      [] name = "map" -> map_relative_eq(s, o, e, m)
      [] name = "option" -> option_eq(strat, s, o, e, m, u)
      [] name = "result" -> result_eq(strat, s, o, e, m, u)
      [] name = "tuple" -> tuple_eq(strat, s, o, e, m, u)
      [] name = "complex" -> complex_eq(strat, s, o, e, m, u)
      [] name = "wrapper" -> wrapper_eq(strat, s, o, e, m, u)
      [] name = "refcell" -> refcell_eq(strat, s, o, e, m, u)

\* A::default_max_ulps() for a type A, as Ulps::default() and the
\* comparison macros ask it
DefaultMaxUlps ==
    /\ pc = "idle"
    /\ pc' = "asked"
    /\ op' = "default_max_ulps"
    /\ self' \in Types
    /\ result' = default_max_ulps_of(self')
    /\ strategy' = "ulps_eq"
    /\ UNCHANGED <<other, epsilon, max_relative, max_ulps, overflow_checks,
                   overflowed, steps, params, after>>

\* the parameter object goes out of scope
ParamsDrop ==
    /\ pc = "building"
    /\ pc' = "idle"
    /\ params' = None
    /\ UNCHANGED <<op, self, other, epsilon, max_relative, max_ulps,
                   overflow_checks, overflowed, steps, result, strategy, after>>

\* the caller takes the boolean and goes on
Return ==
    /\ pc \in {"done", "asked"}
    /\ pc' = "idle"
    /\ op' = None
    /\ self' = 0
    /\ other' = 0
    /\ epsilon' = 0
    /\ max_relative' = 0
    /\ max_ulps' = 0
    /\ overflow_checks' = FALSE
    /\ overflowed' = FALSE
    /\ steps' = <<>>
    /\ result' = None
    /\ strategy' = None
    /\ params' = None
    /\ after' = <<0, 0>>

Next ==
    \/ UnsignedAbsDiffEq
    \/ SignedAbsDiffEq
    \/ FloatAbsDiffEq
    \/ RelativeEq
    \/ UlpsEq
    \/ UlpsEqF32
    \/ SliceEq
    \/ ArrayEq
    \/ VecRelativeEq
    \/ MapRelativeEq
    \/ OptionEq
    \/ ResultEq
    \/ TupleEq
    \/ ComplexEq
    \/ WrapperEq
    \/ RefCellEq
    \/ ParamsDefault
    \/ ParamsEpsilon
    \/ ParamsMaxRelative
    \/ ParamsMaxUlps
    \/ ParamsEq
    \/ ParamsNe
    \/ Ne
    \/ DefaultMaxUlps
    \/ ParamsDrop
    \/ Return

Spec == Init /\ [][Next]_vars

---------------------------------------------------------------------------
(* Properties *)

Done(name) == pc = "done" /\ op = name
Called(name) == pc # "idle" /\ op = name

FloatOps == {"float_abs_diff_eq", "relative_eq", "ulps_eq"}

\* max(|a|, |b|) of two non-NaN floats
MaxAbs(a, b) == IF FLe(FAbs(a), FAbs(b)) THEN FAbs(b) ELSE FAbs(a)

\* the unsigned distance between two bit patterns, larger minus smaller
BitDistance(a, b) == IF a >= b THEN a - b ELSE b - a

\* C1: on a signed integer type abs_diff_eq(a, b, tolerance) returns true
\* iff the mathematical |a - b| <= tolerance, and neither the subtraction
\* nor the absolute value overflows the type's width.
C1_SignedAbsDiffIsExact ==
    Called("signed_abs_diff_eq") =>
        /\ pc = "done"
        /\ ~overflowed
        /\ result = (Abs(self - other) <= epsilon)

\* C2: on an unsigned integer type abs_diff_eq(a, b, tolerance) returns
\* true iff max(a, b) - min(a, b) <= tolerance, and the subtraction it
\* performs never underflows.
C2_UnsignedAbsDiffIsExact ==
    Called("unsigned_abs_diff_eq") =>
        LET hi == IF self >= other THEN self ELSE other
            lo == IF self >= other THEN other ELSE self
        IN  /\ pc = "done"
            /\ ~overflowed
            /\ result = (hi - lo <= epsilon)

\* C2 witness: the operands are the two ends of the range, smaller first,
\* and the call returned true
C2_Witness ==
    /\ Done("unsigned_abs_diff_eq")
    /\ self = 0
    /\ other = UnsignedMax
    /\ epsilon = UnsignedMax
    /\ overflow_checks
    /\ result = TRUE

\* C3: every comparison is total: it returns a boolean and never panics,
\* whatever the operands and tolerances.
C3_EveryComparisonIsTotal ==
    /\ pc # "panicked"
    /\ pc = "done" => result \in BOOLEAN

C5_UlpsEqContractAsStated ==
    Called("ulps_eq") =>
        /\ pc = "done"
        /\ result = ( \/ float_abs_diff_eq(self, other, epsilon)
                      \/ /\ sign_bit(self) = sign_bit(other)
                         /\ BitDistance(to_bits(self), to_bits(other)) <= max_ulps )

\* C5 (amended): ulps_eq returns true iff abs_diff_eq(a, b, epsilon) holds,
\* or neither operand is NaN, both carry the same sign and the unsigned
\* distance between their bit patterns is <= max_ulps; when the signs
\* differ and the short-circuit fails, the result is false.
C5_UlpsEqContract ==
    Called("ulps_eq") =>
        /\ pc = "done"
        /\ result = ( \/ float_abs_diff_eq(self, other, epsilon)
                      \/ /\ ~is_nan(self) /\ ~is_nan(other)
                         /\ sign_bit(self) = sign_bit(other)
                         /\ BitDistance(to_bits(self), to_bits(other)) <= max_ulps )
        /\ sign_bit(self) # sign_bit(other) /\ ~float_abs_diff_eq(self, other, epsilon)
               => result = FALSE

\* C5 witness: two neighbours of the same sign, outside the absolute
\* tolerance, accepted by their bit distance
C5_Witness ==
    /\ Done("ulps_eq")
    /\ self = MAX
    /\ other = MAX - 1
    /\ epsilon = ZERO
    /\ max_ulps = 1
    /\ result = TRUE

\* C6: a NaN operand, on either side, makes abs_diff_eq, relative_eq and
\* ulps_eq false for every other operand and every tolerance.
C6_NaNIsNeverEqual ==
    pc # "idle" /\ op \in FloatOps /\ (is_nan(self) \/ is_nan(other)) =>
        pc = "done" /\ result = FALSE

\* C6 witness: NaN against the same NaN, infinite tolerance, largest ULP count
C6_Witness ==
    /\ Done("ulps_eq")
    /\ is_nan(self)
    /\ other = self
    /\ epsilon = INFINITY
    /\ max_ulps = MaxUlps
    /\ result = FALSE

C8_RelativeEqCommutes ==
    Done("relative_eq") /\ is_finite(self) /\ is_finite(other) =>
        result = relative_eq(other, self, epsilon, max_relative).result

\* C8 witness: operands of different magnitude decided by the relative
\* criterion
C8_Witness ==
    /\ Done("relative_eq")
    /\ is_finite(self) /\ is_finite(other)
    /\ FGt(FAbs(other), FAbs(self))
    /\ steps[Len(steps)] = "max_relative"
    /\ result = TRUE

\* C9: abs_diff_eq(a, a, tolerance) is true for every finite a of a
\* primitive numeric type and every non-negative tolerance.
C9_AbsDiffEqReflexive ==
    /\ Called("unsigned_abs_diff_eq") /\ self = other
           => pc = "done" /\ result = TRUE
    /\ Called("signed_abs_diff_eq") /\ self = other /\ epsilon >= 0
           => pc = "done" /\ result = TRUE
    /\ Called("float_abs_diff_eq") /\ self = other /\ is_finite(self) /\ FLe(ZERO, epsilon)
           => pc = "done" /\ result = TRUE

\* C9 witness: the most negative signed value against itself at tolerance 0
\* in a build with overflow checks
C9_Witness ==
    /\ Done("signed_abs_diff_eq")
    /\ self = SignedMin
    /\ other = SignedMin
    /\ epsilon = 0
    /\ overflow_checks
    /\ result = TRUE

\* C10: 0.0 and -0.0, in either order, are equal under abs_diff_eq,
\* relative_eq and ulps_eq at tolerance 0 for every max_relative and
\* max_ulps; ulps_eq returns from the absolute-difference short-circuit,
\* before the sign check.
C10_SignedZerosAreEqual ==
    ( /\ pc # "idle"
      /\ op \in FloatOps
      /\ {self, other} = {ZERO, NEG_ZERO}
      /\ epsilon = ZERO )
    => /\ pc = "done"
       /\ result = TRUE
       /\ (op = "ulps_eq" => steps = <<"abs_diff_eq">>)

\* C10 witness: ulps_eq(0.0, -0.0) at tolerance 0 and max_ulps 0
C10_Witness ==
    /\ Done("ulps_eq")
    /\ self = ZERO
    /\ other = NEG_ZERO
    /\ epsilon = ZERO
    /\ max_ulps = 0
    /\ result = TRUE

\* C11: the tolerance bound of abs_diff_eq is inclusive: with a = 1.0 and E
\* the machine epsilon (the default tolerance), a vs a + E and a vs a - E
\* are equal at the default tolerance, a vs a + 2E and a vs a - 2E are not,
\* and both become equal at tolerance 2E.
C11_ToleranceIsInclusive ==
    Done("float_abs_diff_eq") /\ self = ONE =>
        LET E == EPSILON
            one_off == {FAdd(ONE, E), FSub(ONE, E)}
            two_off == {FAdd(FAdd(ONE, E), E), FSub(FSub(ONE, E), E)}
        IN  /\ other \in one_off /\ epsilon = float_default_epsilon => result = TRUE
            /\ other \in two_off /\ epsilon = float_default_epsilon => result = FALSE
            /\ other \in two_off /\ epsilon = FAdd(E, E) => result = TRUE

\* C11 witness: 1.0 against 1.0 - E - E at tolerance E + E
C11_Witness ==
    /\ Done("float_abs_diff_eq")
    /\ self = ONE
    /\ other = FSub(FSub(ONE, EPSILON), EPSILON)
    /\ other # ONE
    /\ epsilon = FAdd(EPSILON, EPSILON)
    /\ epsilon # float_default_epsilon
    /\ result = TRUE

\* C12 as stated: 1.0f32 vs 1.0f32 + 1e-17f32 is ulps_eq at the default
\* max_ulps (4); 1.0f32 vs 1.0f32 + 1e-15f32 is not ulps_eq at the default
\* max_ulps, and is ulps_eq again with max_ulps = 5 or greater.
C12_DocExampleAsStated ==
    Done("f32_ulps_eq") /\ self = F32_ONE /\ epsilon = F32_EPSILON =>
        /\ other = f32_add(F32_ONE, F32_1E_17) /\ max_ulps = default_max_ulps
               => result = TRUE
        /\ other = f32_add(F32_ONE, F32_1E_15) /\ max_ulps = default_max_ulps
               => result = FALSE
        /\ other = f32_add(F32_ONE, F32_1E_15) /\ max_ulps >= 5 => result = TRUE

\* C12: 1.0f32 + 1e-17f32 and 1.0f32 + 1e-15f32 both round to 1.0f32, so
\* 1.0f32 is ulps_eq to either at the default max_ulps (4); 1.0f32 vs the
\* f32 five units in the last place above it (1.0f32 + 5.0 * f32::EPSILON)
\* is not ulps_eq at the default max_ulps, and is ulps_eq again with
\* max_ulps = 5 or greater.
C12_DocExample ==
    Done("f32_ulps_eq") /\ self = F32_ONE /\ epsilon = F32_EPSILON =>
        /\ other \in {f32_add(F32_ONE, F32_1E_17), f32_add(F32_ONE, F32_1E_15)}
               /\ max_ulps = default_max_ulps
               => result = TRUE
        /\ other = f32_add(F32_ONE, f32_ulps_of_one(5)) /\ max_ulps = default_max_ulps
               => result = FALSE
        /\ other = f32_add(F32_ONE, f32_ulps_of_one(5)) /\ max_ulps >= 5
               => result = TRUE

\* C12 witness: five units in the last place apart, accepted at max_ulps = 5
C12_Witness ==
    /\ Done("f32_ulps_eq")
    /\ self = F32_ONE
    /\ other = F32_ONE + 5
    /\ other = f32_add(F32_ONE, f32_ulps_of_one(5))
    /\ epsilon = F32_EPSILON
    /\ max_ulps = 5
    /\ steps = <<"abs_diff_eq", "signum", "to_bits">>
    /\ result = TRUE

\* a derived comparison of the given shapes has returned
DoneDerived(shapes) == pc = "done" /\ op \in shapes

\* C13: a sequence comparison (slice, array, Vec) under each strategy is
\* true iff the sequences have the same length and at every index the left
\* element is approximately equal to the right element under the same
\* strategy and the one supplied tolerance; it is positional.
C13_SequencesCompareElementwise ==
    DoneDerived({"slice", "array", "vec"}) =>
        result = ( /\ Len(self) = Len(other)
                   /\ \A i \in 1..Len(self) :
                         elem_eq(strategy, self[i], other[i],
                                 epsilon, max_relative, max_ulps) )

\* C13 witness: the same two elements in the other order are not equal
C13_Witness ==
    /\ DoneDerived({"slice"})
    /\ strategy = "abs_diff_eq"
    /\ self = <<ONE, ONE + 1>>
    /\ other = <<ONE + 1, ONE>>
    /\ epsilon = ZERO
    /\ result = FALSE


\* C14: relative_eq on IndexMap is true iff the maps have the same
\* cardinality and every key of the left map is in the right map with an
\* approximately equal value; the insertion order of either map does not
\* matter, and a left key missing from the right map makes them unequal.
C14_MapsCompareByKey ==
    DoneDerived({"map"}) =>
        result = ( /\ Cardinality(keys(self)) = Cardinality(keys(other))
                   /\ \A i \in 1..Len(self) :
                         \E j \in 1..Len(other) :
                            /\ other[j][1] = self[i][1]
                            /\ relative_eq(self[i][2], other[j][2],
                                           epsilon, max_relative).result )

\* C14 witness: the same two entries inserted in the other order, with
\* different values under the two keys, compare equal
C14_Witness ==
    /\ DoneDerived({"map"})
    /\ self = << <<1, ONE>>, <<2, ONE + 1>> >>
    /\ other = << <<2, ONE + 1>>, <<1, ONE>> >>
    /\ epsilon = ZERO
    /\ max_relative = ZERO
    /\ result = TRUE

\* C15: whenever a map comparison returns true the two maps have the same
\* set of keys.
C15_EqualMapsHaveTheSameKeys ==
    DoneDerived({"map"}) /\ result = TRUE => keys(self) = keys(other)

\* C15 witness: a map compared with a larger map that holds all its
\* entries is not equal to it
C15_Witness ==
    /\ DoneDerived({"map"})
    /\ result = FALSE
    /\ self # <<>>
    /\ keys(self) \subseteq keys(other)
    /\ keys(self) # keys(other)
    /\ \A i \in 1..Len(self) : get(other, self[i][1]) = <<self[i][2]>>

\* C16: under each strategy None equals None, Some(a) equals Some(b) iff a
\* and b are approximately equal under that strategy and tolerance, and
\* Some never equals None, in either order, for any tolerance.
C16_OptionsCompareByVariant ==
    DoneDerived({"option"}) =>
        result = ( \/ self = <<>> /\ other = <<>>
                   \/ /\ Len(self) = 1 /\ Len(other) = 1
                      /\ elem_eq(strategy, self[1], other[1],
                                 epsilon, max_relative, max_ulps) )

\* C16 witness: None against Some, and Some against None, at the widest
\* tolerance compared with
C16_Witness ==
    /\ DoneDerived({"option"})
    /\ {self, other} = {<<>>, <<ONE>>}
    /\ epsilon = EPSILON
    /\ result = FALSE

\* C17: under each strategy Ok(a) against Ok(b) is decided by a and b with
\* the first slot of the tolerance only, Err(a) against Err(b) by a and b
\* with the second slot only, and Ok against Err is never equal.
C17_ResultsCompareByVariant ==
    DoneDerived({"result"}) =>
        /\ self.ok /\ other.ok =>
              result = elem_eq(strategy, self.value, other.value,
                               epsilon[1], max_relative[1], max_ulps)
        /\ ~self.ok /\ ~other.ok =>
              result = elem_eq(strategy, self.value, other.value,
                               epsilon[2], max_relative[2], max_ulps)
        /\ self.ok # other.ok => result = FALSE

\* C17 witness: two errors one ULP apart are equal through the second
\* slot although the first slot would reject them
C17_Witness ==
    /\ DoneDerived({"result"})
    /\ strategy = "abs_diff_eq"
    /\ self = Err(ONE)
    /\ other = Err(ONE + 1)
    /\ epsilon = <<ZERO, EPSILON>>
    /\ result = TRUE

\* C18: a tuple comparison, for every arity, is the AND of the comparisons
\* of its positions, position i with component i of the tolerance and no
\* other; the empty tuple equals itself.
C18_TuplesCompareByPosition ==
    DoneDerived({"tuple"}) =>
        /\ Len(self) \in TupleArities
        /\ result = \A i \in 1..Len(self) :
                        elem_eq(strategy, self[i], other[i],
                                epsilon[i], max_relative[i], max_ulps)
        /\ Len(self) = 0 => result = TRUE

\* C18 witness: a tuple of the largest arity compared, equal only because
\* its last position has its own tolerance
C18_Witness ==
    /\ DoneDerived({"tuple"})
    /\ strategy = "abs_diff_eq"
    /\ Len(self) = MaxArity
    /\ self = [i \in 1..MaxArity |-> ONE]
    /\ other = [i \in 1..MaxArity |-> IF i = MaxArity THEN ONE + 1 ELSE ONE]
    /\ epsilon = [i \in 1..MaxArity |-> IF i = MaxArity THEN EPSILON ELSE ZERO]
    /\ result = TRUE

\* C19: for &T, &mut T, Cell, RefCell, NotNan and OrderedFloat, comparing
\* two wrapped values (or a NotNan / OrderedFloat with a bare float) under
\* any strategy returns the boolean that comparing the inner values with
\* the same parameters returns.
C19_WrappersAreTransparent ==
    pc \in {"done", "panicked"} /\ op \in {"wrapper", "refcell"} =>
        /\ pc = "done"
        /\ result = elem_eq(strategy, self.value, other.value,
                            epsilon, max_relative, max_ulps)

\* C20: default_epsilon() is 0 for the integer types and the machine
\* epsilon for the floats, default_max_relative() is the machine epsilon,
\* default_max_ulps() is 4, and AbsDiff::default(), Relative::default()
\* and Ulps::default() hold exactly these values in their fields.
C20_Defaults ==
    /\ default_epsilon("unsigned") = 0
    /\ default_epsilon("signed") = 0
    /\ default_epsilon("float") = EPSILON
    /\ default_max_relative = EPSILON
    /\ default_max_ulps = 4
    /\ pc = "building" /\ params.history = <<>> =>
          /\ params.epsilon = IF params.type = "float" THEN EPSILON ELSE 0
          /\ params.kind = "Relative" => params.max_relative = EPSILON
          /\ params.kind = "Ulps" => params.max_ulps = 4
          /\ params.kind = "AbsDiff" => DOMAIN params = {"kind", "type", "history", "epsilon"}

\* C20 witness: a fresh Relative for floats, whose two fields are the
\* machine epsilon, 1.0's distance to its successor
C20_Witness ==
    /\ pc = "building"
    /\ params.kind = "Relative"
    /\ params.history = <<>>
    /\ params.epsilon = EPSILON
    /\ params.max_relative = EPSILON
    /\ FAdd(ONE, EPSILON) = ONE + 1
    /\ EPSILON # ZERO


\* the states that hold a parameter object: one under construction, or the
\* one a terminal eq or ne was called on
HasParams ==
    \/ pc = "building"
    \/ pc \in {"done", "panicked"} /\ op \in {"params_eq", "params_ne"}

\* the value the last call for `field` in the chain h passed, or the default
LastSet(h, field, default) ==
    LET S == {i \in 1..Len(h) : h[i][1] = field}
    IN  IF S = {} THEN default ELSE h[CHOOSE i \in S : \A j \in S : j <= i][2]

\* default() of the parameter object p's kind and type
DefaultOf(p) ==
    CASE p.kind = "AbsDiff" -> AbsDiff_default(p.type)
      [] p.kind = "Relative" -> Relative_default
      [] p.kind = "Ulps" -> Ulps_default

\* the object the chain of mutator calls h builds from p
RECURSIVE Chain(_, _)
Chain(p, h) ==
    IF h = <<>> THEN p
    ELSE LET q == CASE Head(h)[1] = "epsilon" -> params_epsilon(p, Head(h)[2])
                    [] Head(h)[1] = "max_relative" -> params_max_relative(p, Head(h)[2])
                    [] Head(h)[1] = "max_ulps" -> params_max_ulps(p, Head(h)[2])
         IN  Chain(q, Tail(h))

\* the chain h with its calls i and i + 1 in the other order
Swapped(h, i) == [h EXCEPT ![i] = h[i + 1], ![i + 1] = h[i]]

\* what the terminal call `name` on p returns
Terminal(name, p, s, o, checks) ==
    IF name = "params_eq" THEN params_eq(p, s, o, checks) ELSE params_ne(p, s, o, checks)

\* C21: a mutator of a parameter object replaces one field and leaves the
\* others as they were: after any chain of mutators from default() each
\* field holds the last value set for it, or its default if it was never
\* set, and calling the mutators of two different fields in the other
\* order gives the same outcome of eq and ne.
C21_MutatorsUpdateOneField ==
    HasParams =>
       /\ params.epsilon
             = LastSet(params.history, "epsilon", default_epsilon(params.type))
       /\ params.kind = "Relative" =>
             params.max_relative
                = LastSet(params.history, "max_relative", default_max_relative)
       /\ params.kind = "Ulps" =>
             params.max_ulps = LastSet(params.history, "max_ulps", default_max_ulps)
       /\ DOMAIN params = DOMAIN DefaultOf(params)
       /\ pc # "building" =>
             \A i \in 1..(Len(params.history) - 1) :
                params.history[i][1] # params.history[i + 1][1] =>
                   LET q == Chain(DefaultOf(params), Swapped(params.history, i))
                       r == Terminal(op, q, self, other, overflow_checks)
                   IN  /\ r.panicked = (pc = "panicked")
                       /\ r.result = result

\* C21 witness: Relative::default().max_relative(0.0).epsilon(0.0) keeps
\* the max_relative of 0.0 under which 1.0 and its successor differ, while
\* they are equal under the default max_relative
C21_Witness ==
    /\ pc = "done"
    /\ op = "params_eq"
    /\ params.kind = "Relative"
    /\ params.history = <<<<"max_relative", ZERO>>, <<"epsilon", ZERO>>>>
    /\ params.max_relative = ZERO
    /\ params.epsilon = ZERO
    /\ self = ONE
    /\ other = ONE + 1
    /\ result = FALSE
    /\ relative_eq(ONE, ONE + 1, ZERO, default_max_relative).result

\* the call reached the outcome r: it panicked iff r did, and returned
\* r's boolean, or its negation, otherwise
Agrees(r, negated) ==
    /\ r.panicked = (pc = "panicked")
    /\ pc = "done" => result = (IF negated THEN ~r.result ELSE r.result)

\* C22: abs_diff_ne, relative_ne and ulps_ne return the negation of
\* abs_diff_eq, relative_eq and ulps_eq on the same operands and
\* parameters; p.ne(a, b) returns the negation of p.eq(a, b), and
\* p.eq(a, b) returns what the capability method returns when called with
\* p's fields.
C22_NeNegatesEq ==
    /\ Called("ne") =>
          Agrees(method(strategy, self, other, epsilon, max_relative, max_ulps,
                        overflow_checks), TRUE)
    /\ Called("params_ne") =>
          Agrees(params_eq(params, self, other, overflow_checks), TRUE)
    /\ Called("params_eq") =>
          Agrees(method(MethodOf(params), self, other, params.epsilon,
                        IF params.kind = "Relative" THEN params.max_relative ELSE 0,
                        IF params.kind = "Ulps" THEN params.max_ulps ELSE 0,
                        overflow_checks), FALSE)

\* C22 witness: Ulps::default().max_ulps(0).ne(1.0, next after 1.0) is
\* true, the two being one unit in the last place apart
C22_Witness ==
    /\ Done("params_ne")
    /\ params.kind = "Ulps"
    /\ params.history = <<<<"epsilon", ZERO>>, <<"max_ulps", 0>>>>
    /\ self = ONE
    /\ other = ONE + 1
    /\ result = TRUE
    /\ ~ulps_eq(ONE, ONE + 1, ZERO, 0, FALSE).result

CalledOnCells ==
    \/ Called("refcell")
    \/ Called("wrapper") /\ self.wrapper = "cell"

\* C24: a comparison of interior-mutable cells returns a boolean, the
\* comparison of the values the cells hold at the call, in every state of
\* the cells: a RefCell may be unborrowed, shared-borrowed or mutably
\* borrowed by the caller, and may be compared with itself.
C24_CellComparisonsReturn ==
    CalledOnCells =>
       /\ pc = "done"
       /\ result \in BOOLEAN
       /\ result = elem_eq(strategy, self.value, other.value, epsilon,
                           max_relative, max_ulps)

\* C25: ulps_eq on a float runs the absolute-difference short-circuit,
\* then the sign check, then the distance of the bit patterns, in this
\* order; the sign check runs only when the short-circuit failed, the
\* distance is computed only when the short-circuit failed and the signs
\* are equal, and the subtraction of the smaller bit pattern from the
\* larger never underflows, so the call never panics.
C25_UlpsEqStepOrder ==
    /\ Called("ulps_eq") =>
          /\ pc = "done"
          /\ ~overflowed
          /\ \E k \in 1..3 : steps = SubSeq(<<"abs_diff_eq", "signum", "to_bits">>, 1, k)
          /\ Len(steps) >= 2 <=> ~float_abs_diff_eq(self, other, epsilon)
          /\ Len(steps) = 3 <=>
                /\ ~float_abs_diff_eq(self, other, epsilon)
                /\ FEq(signum(self), signum(other))
          /\ Len(steps) = 3 =>
                result = (IF to_bits(self) <= to_bits(other)
                          THEN to_bits(other) - to_bits(self) <= max_ulps
                          ELSE to_bits(self) - to_bits(other) <= max_ulps)
    /\ Called("f32_ulps_eq") =>
          /\ pc = "done"
          /\ \E k \in 1..3 : steps = SubSeq(<<"abs_diff_eq", "signum", "to_bits">>, 1, k)
          /\ Len(steps) >= 2 <=> ~f32_abs_diff_eq(self, other, epsilon)
          /\ Len(steps) = 3 <=>
                /\ ~f32_abs_diff_eq(self, other, epsilon)
                /\ f32_signum(self) = f32_signum(other)

\* C25 witness: the successor of 1.0 against 1.0 with tolerance 0 and
\* max_ulps 1: all three steps run, the left bit pattern is the larger,
\* and the distance 1 is within max_ulps
C25_Witness ==
    /\ Done("ulps_eq")
    /\ self = ONE + 1
    /\ other = ONE
    /\ epsilon = ZERO
    /\ max_ulps = 1
    /\ overflow_checks
    /\ steps = <<"abs_diff_eq", "signum", "to_bits">>
    /\ to_bits(self) > to_bits(other)
    /\ result = TRUE

\* the positions 1, 2, ... up to the first one in fails, or up to n
UpToFirst(fails, n) == [i \in 1..(IF fails = {} THEN n ELSE SetMin(fails)) |-> i]

\* C26: a sequence, a tuple and a Complex are compared position by
\* position from the left; once the lengths differ or the comparison at a
\* position returns false the result is false and no later position is
\* compared.
C26_StopsAtFirstUnequal ==
    /\ DoneDerived({"slice", "array", "vec"}) =>
          LET fails == {i \in 1..Len(self) : i <= Len(other) /\
                           ~elem_eq(strategy, self[i], other[i], epsilon,
                                    max_relative, max_ulps)}
          IN  IF Len(self) # Len(other) THEN steps = <<>> /\ result = FALSE
              ELSE steps = UpToFirst(fails, Len(self)) /\ result = (fails = {})
    /\ DoneDerived({"tuple"}) =>
          LET fails == {i \in 1..Len(self) :
                           ~elem_eq(strategy, self[i], other[i], epsilon[i],
                                    max_relative[i], max_ulps)}
          IN  steps = UpToFirst(fails, Len(self)) /\ result = (fails = {})
    /\ DoneDerived({"complex"}) =>
          LET fails == {i \in 1..2 :
                           ~elem_eq(strategy, IF i = 1 THEN self.re ELSE self.im,
                                    IF i = 1 THEN other.re ELSE other.im,
                                    epsilon, max_relative, max_ulps)}
          IN  steps = UpToFirst(fails, 2) /\ result = (fails = {})

\* C26 witness: [1.0, 1.0] against [next after 1.0, NaN] with tolerance 0:
\* the first pair is unequal and the second, unequal too, is not compared
C26_Witness ==
    /\ DoneDerived({"slice"})
    /\ strategy = "abs_diff_eq"
    /\ self = <<ONE, ONE>>
    /\ other = <<ONE + 1, NAN>>
    /\ epsilon = ZERO
    /\ steps = <<1>>
    /\ result = FALSE

\* C27: approximate equality is not transitive.  For every positive
\* tolerance t and unsigned a with a + 2t representable, a and a + t are
\* equal within t, a + t and a + 2t are equal within t, and a and a + 2t
\* are not; the same holds of the signed integers 0, 1, 2 with tolerance 1
\* and of the floats 1.0, its successor and the successor of that with
\* the machine epsilon as tolerance.
C27_NotTransitive ==
    /\ Done("unsigned_abs_diff_eq") /\ epsilon > 0 /\ other = self + 2 * epsilon =>
          /\ result = FALSE
          /\ unsigned_abs_diff_eq(self, self + epsilon, epsilon, overflow_checks).result
          /\ unsigned_abs_diff_eq(self + epsilon, other, epsilon, overflow_checks).result
    /\ Done("signed_abs_diff_eq") /\ self = 0 /\ other = 2 /\ epsilon = 1 =>
          /\ result = FALSE
          /\ signed_abs_diff_eq(0, 1, 1, overflow_checks).result
          /\ signed_abs_diff_eq(1, 2, 1, overflow_checks).result
    /\ Done("float_abs_diff_eq") /\ self = ONE /\ other = ONE + 2 /\ epsilon = EPSILON =>
          /\ result = FALSE
          /\ float_abs_diff_eq(ONE, ONE + 1, EPSILON)
          /\ float_abs_diff_eq(ONE + 1, ONE + 2, EPSILON)

\* C27 witness: unsigned 0 against 2 with tolerance 1 is unequal, while 0
\* and 1, and 1 and 2, are equal within 1
C27_Witness ==
    /\ Done("unsigned_abs_diff_eq")
    /\ self = 0
    /\ other = 2
    /\ epsilon = 1
    /\ result = FALSE
    /\ unsigned_abs_diff_eq(0, 1, 1, overflow_checks).result
    /\ unsigned_abs_diff_eq(1, 2, 1, overflow_checks).result

\* C28: abs_diff_eq and ulps_eq are symmetric.  Whenever a comparison of
\* two primitives returns without its integer difference overflowing, the
\* comparison of the same two values in the other order, with the same
\* tolerance and max_ulps, returns the same boolean and does not overflow.
C28_Symmetric ==
    \A name \in {"unsigned_abs_diff_eq", "signed_abs_diff_eq", "float_abs_diff_eq",
                 "ulps_eq"} :
       Done(name) /\ ~overflowed =>
          LET r == method(name, other, self, epsilon, max_relative, max_ulps,
                          overflow_checks)
          IN  /\ ~r.panicked
              /\ ~r.overflowed
              /\ r.result = result

\* C28 witness: signed -3 against 4 with tolerance 7: the difference -7 and
\* the difference 7 of the other order are both within the tolerance
C28_Witness ==
    /\ Done("signed_abs_diff_eq")
    /\ self = -3
    /\ other = 4
    /\ epsilon = 7
    /\ overflow_checks
    /\ ~overflowed
    /\ result = TRUE
    /\ signed_sub(self, other).value = -7
    /\ signed_sub(other, self).value = 7

\* the tolerances at least as large as e, for the comparison `name`: per
\* slot for Result and tuples
Wider(name, e) ==
    CASE name = "unsigned_abs_diff_eq" -> {e2 \in UnsignedInts : e <= e2}
      [] name = "signed_abs_diff_eq" -> {e2 \in SignedInts : e <= e2}
      [] name \in {"result", "tuple"} ->
            {e2 \in [DOMAIN e -> Tolerances \cup {ONE, INFINITY}] :
                \A i \in DOMAIN e : FLe(e[i], e2[i])}
      [] OTHER -> {e2 \in Floats : FLe(e, e2)}

\* C29: equality is monotone in the tolerance.  An abs_diff_eq that
\* returned true returns true under every tolerance at least as large, and
\* a ulps_eq that returned true returns true under every max_ulps at least
\* as large; so do the comparisons of sequences, Option, Result and tuples
\* of such elements, the tolerance of a Result or tuple growing slot by
\* slot.
C29_MonotoneInTolerance ==
    /\ \A name \in {"unsigned_abs_diff_eq", "signed_abs_diff_eq", "float_abs_diff_eq"} :
          Done(name) /\ result = TRUE =>
             \A e2 \in Wider(name, epsilon) :
                LET r == method(name, self, other, e2, 0, 0, overflow_checks)
                IN  ~r.panicked /\ r.result = TRUE
    /\ Done("ulps_eq") /\ result = TRUE =>
          \A m2 \in max_ulps..(MaxUlps + 1) :
             LET r == ulps_eq(self, other, epsilon, m2, overflow_checks)
             IN  ~r.panicked /\ r.result = TRUE
    /\ DoneDerived({"slice", "array", "option", "result", "tuple"})
          /\ strategy = "abs_diff_eq" /\ result = TRUE =>
          \A e2 \in Wider(op, epsilon) :
             call(op, strategy, params, self, other, e2, max_relative, max_ulps,
                  FALSE).result = TRUE
    /\ DoneDerived({"slice", "array", "option", "result", "tuple"})
          /\ strategy = "ulps_eq" /\ result = TRUE =>
          \A m2 \in max_ulps..(MaxUlps + 1) :
             call(op, strategy, params, self, other, epsilon, max_relative, m2,
                  FALSE).result = TRUE

\* C29 witness: the tuples (1.0, 1.0) and (1.0, next after 1.0) are equal
\* under the tolerances (0, eps), and under the larger (eps, eps) too, but
\* not under the smaller (0, 0)
C29_Witness ==
    /\ DoneDerived({"tuple"})
    /\ strategy = "abs_diff_eq"
    /\ self = <<ONE, ONE>>
    /\ other = <<ONE, ONE + 1>>
    /\ epsilon = <<ZERO, EPSILON>>
    /\ result = TRUE
    /\ <<EPSILON, EPSILON>> \in Wider("tuple", epsilon)
    /\ tuple_eq("abs_diff_eq", self, other, <<EPSILON, EPSILON>>, max_relative, 0).result
    /\ ~tuple_eq("abs_diff_eq", self, other, <<ZERO, ZERO>>, max_relative, 0).result

\* a type was asked for its default_max_ulps()
Asked == pc = "asked" /\ op = "default_max_ulps"

\* the type has a float somewhere in it
RECURSIVE HasFloat(_)
HasFloat(ty) ==
    ty.ctor = "float" \/ \E i \in 1..Len(ty.args) : HasFloat(ty.args[i])

\* C30: the default max_ulps of a composite type is one number: the larger
\* of the two defaults for Result<T, E>, the largest element default for a
\* non-empty tuple, 0 for the empty tuple, and the element's default for
\* Option, references, cells, sequences and the other wrappers; and a
\* ulps_eq on a Result or a tuple applies its one max_ulps to every
\* element while it takes the tolerance slot by slot.
C30_DefaultMaxUlpsIsOneNumber ==
    /\ Asked =>
          LET d(i) == default_max_ulps_of(self.args[i])
              n == Len(self.args)
          IN  /\ result \in Nat
              /\ self.ctor = "float" => result = 4
              /\ self.ctor = "result" =>
                    result \in {d(1), d(2)} /\ result >= d(1) /\ result >= d(2)
              /\ self.ctor = "tuple" /\ n > 0 =>
                    result \in {d(i) : i \in 1..n} /\ \A i \in 1..n : result >= d(i)
              /\ self.ctor = "tuple" /\ n = 0 => result = 0
              /\ self.ctor \notin {"float", "result", "tuple"} => n = 1 /\ result = d(1)
              /\ result = IF HasFloat(self) THEN 4 ELSE 0
    /\ DoneDerived({"tuple"}) /\ strategy = "ulps_eq" =>
          /\ max_ulps \in Nat
          /\ DOMAIN epsilon = 1..Len(self)
          /\ result = \A i \in 1..Len(self) :
                         ulps_eq(self[i], other[i], epsilon[i], max_ulps, FALSE).result
    /\ DoneDerived({"result"}) /\ strategy = "ulps_eq" =>
          /\ max_ulps \in Nat
          /\ DOMAIN epsilon = 1..2
          /\ result = /\ self.ok = other.ok
                      /\ ulps_eq(self.value, other.value,
                                 epsilon[IF self.ok THEN 1 ELSE 2], max_ulps,
                                 FALSE).result

\* C30 witness: Result<(), f32> has the default 4, the larger of the 0 of
\* () and the 4 of f32
C30_Witness ==
    /\ Asked
    /\ self = Ty("result", <<Ty("tuple", <<>>), Ty("float", <<>>)>>)
    /\ default_max_ulps_of(self.args[1]) = 0
    /\ default_max_ulps_of(self.args[2]) = 4
    /\ result = 4
===========================================================================
